---------------------------- MODULE Spec2Model ----------------------------
(***************************************************************************)
(* A model of the PAL bootstrap loader, Pal/src/db_main.c: pal_main and    *)
(* its helpers load_libraries, insert_envs_from_manifest, set_debug_type   *)
(* and load_cstring_array.                                                 *)
(*                                                                         *)
(* Representation.  A C string is the sequence of its bytes INCLUDING the  *)
(* terminating NUL ("ab" is <<"a","b",NUL>>, "" is <<NUL>>); the NULL      *)
(* pointer designates no bytes and is the empty sequence.  An argv / envp  *)
(* vector is the sequence of its slots, the terminating NULL slot          *)
(* included.  A pointer into a buffer is a 1-based position in it          *)
(* (position p is the C expression buf + p - 1), NullPtr is the NULL       *)
(* pointer.                                                                *)
(***************************************************************************)
EXTENDS Integers, Sequences, FiniteSets, TLC

\* ------------------------------------------------------------------------
\* C strings
\* ------------------------------------------------------------------------

NUL == "NUL"

NULL == << >>

\* The C string made of the characters of the tuple t.
Str(t) == t \o <<NUL>>

\* The sequences over S of length at most n.
SeqUpTo(S, n) == UNION {[1..k -> S] : k \in 0..n}

\* strlen
StrLen(s) == Len(s) - 1

\* strchr(s, ch): the position in s of the first ch, 0 (NULL) when s holds none.
StrChr(s, ch) ==
    LET hits == {i \in 1..StrLen(s) : s[i] = ch}
    IN  IF hits = {} THEN 0 ELSE CHOOSE i \in hits : \A j \in hits : i <= j

\* The concatenation of the C strings of a sequence: the bytes of a file
\* that holds them one after the other.
RECURSIVE Concat(_)
Concat(v) == IF v = << >> THEN << >> ELSE Head(v) \o Concat(Tail(v))

\* A vector: the slots of strs followed by the terminating NULL slot.
Vec(strs) == strs \o <<NULL>>

\* The entries of a vector, the terminating slot dropped.
Entries(v) == SubSeq(v, 1, Len(v) - 1)

\* ------------------------------------------------------------------------
\* Error codes (the value of PAL_ERROR_x; a return value ret < 0 is any
\* value other than OK)
\* ------------------------------------------------------------------------

OK == "OK"

PAL_ERROR_INVAL == "PAL_ERROR_INVAL"

PAL_ERROR_NOMEM == "PAL_ERROR_NOMEM"

PAL_ERROR_DENIED == "PAL_ERROR_DENIED"

\* The error a failing host call (_DkStreamOpen, _DkStreamRead, ...) returns.
HostError == "PAL_ERROR_STREAM"

\* ------------------------------------------------------------------------
\* load_cstring_array
\* ------------------------------------------------------------------------

NullPtr == 0

\* The content of a malloc-ed pointer slot that was never written.
Uninit == -1

\* The host call of load_cstring_array that fails in a run ("none": all succeed).
LcaFailures == {"none", "open", "attr", "malloc_buf", "read", "malloc_array", "close"}

\* if (file_size > 0 && buf[file_size - 1] != '\0')
BadFormat(buf) == Len(buf) > 0 /\ buf[Len(buf)] # NUL

\* for (i = 0; i < file_size; i++) if (buf[i] == '\0') count++;
CountNul(buf) == Cardinality({i \in 1..Len(buf) : buf[i] = NUL})

\* The loop "for (i = 0; i < file_size - 1; i++) if (buf[i] == '\0')
\* *(argv_it++) = buf + i + 1;" from C index i on; it is the next slot
\* written (a write past the end of array is recorded in over).
RECURSIVE FillFrom(_, _, _)
FillFrom(buf, i, st) ==
    IF ~(i < Len(buf) - 1) THEN st
    ELSE IF buf[i + 1] = NUL
         THEN FillFrom(buf, i + 1,
                 [array |-> IF st.it <= Len(st.array)
                            THEN [st.array EXCEPT ![st.it] = i + 2]
                            ELSE st.array,
                  it    |-> st.it + 1,
                  over  |-> st.over \/ st.it > Len(st.array)])
         ELSE FillFrom(buf, i + 1, st)

\* A faulty variant of FillArray: the first pointer is never stored.
FillArraySkipFirst(buf, count) ==
    LET fresh == [k \in 1..count + 1 |-> IF k = count + 1 THEN NullPtr ELSE Uninit]
    IN  IF Len(buf) > 0
        THEN FillFrom(buf, 0, [array |-> fresh, it |-> 1, over |-> FALSE])
        ELSE [array |-> fresh, it |-> 1, over |-> FALSE]

\* array = malloc(sizeof(char*) * (count + 1)); array[count] = NULL;
\* if (file_size > 0) { *(argv_it++) = buf; <the loop> }
FillArray(buf, count) ==
    LET fresh == [k \in 1..count + 1 |-> IF k = count + 1 THEN NullPtr ELSE Uninit]
    IN  IF Len(buf) > 0
        THEN FillFrom(buf, 0, [array |-> [fresh EXCEPT ![1] = 1], it |-> 2, over |-> FALSE])
        ELSE [array |-> fresh, it |-> 1, over |-> FALSE]

\* The C string a pointer into buf designates: the bytes from position p to
\* the first NUL at or after it (to the end of buf when there is none).
StrAt(buf, p) ==
    LET nuls == {i \in p..Len(buf) : buf[i] = NUL}
        e    == IF nuls = {} THEN Len(buf) ELSE CHOOSE i \in nuls : \A j \in nuls : i <= j
    IN  SubSeq(buf, p, e)

\* The vector of C strings an array of pointers into buf designates.
View(buf, array) ==
    [k \in 1..Len(array) |-> IF array[k] = NullPtr \/ array[k] = Uninit
                             THEN NULL ELSE StrAt(buf, array[k])]

\* The record of a call that has not happened.
NoLca == [called |-> FALSE, fail |-> "none", ret |-> OK, res_written |-> FALSE, res |-> << >>,
          buf |-> << >>, array |-> << >>, buf_live |-> FALSE,
          array_live |-> FALSE, hdl_open |-> FALSE, over |-> FALSE]

\* The "out_fail:" exit: the stream is closed, buf and array are freed.
LcaOutFail(ret, buf) ==
    [called |-> TRUE, fail |-> "none", ret |-> ret, res_written |-> FALSE, res |-> << >>,
     buf |-> buf, array |-> << >>, buf_live |-> FALSE, array_live |-> FALSE,
     hdl_open |-> FALSE, over |-> FALSE]

\* Lines 212-256 on a file holding the bytes file, with the host call named
\* by fail failing.
LcaBody(file, fail) ==
    IF fail = "open"
    THEN [NoLca EXCEPT !.called = TRUE, !.ret = HostError]
    ELSE IF fail = "attr" THEN LcaOutFail(HostError, << >>)
    ELSE IF fail = "malloc_buf" THEN LcaOutFail(PAL_ERROR_NOMEM, << >>)
    ELSE IF fail = "read" THEN LcaOutFail(HostError, << >>)
    ELSE IF BadFormat(file) THEN LcaOutFail(PAL_ERROR_INVAL, file)
    ELSE IF fail = "malloc_array" THEN LcaOutFail(PAL_ERROR_NOMEM, file)
    ELSE LET count == CountNul(file)
             fill  == FillArray(file, count)
         IN  [called |-> TRUE, fail |-> "none",
              ret |-> IF fail = "close" THEN HostError ELSE OK,
              res_written |-> TRUE,
              res |-> View(file, fill.array),
              buf |-> file, array |-> fill.array,
              buf_live |-> TRUE, array_live |-> TRUE,
              hdl_open |-> FALSE, over |-> fill.over]

\* load_cstring_array(uri, res) on a file holding the bytes file, with the
\* host call named by fail failing.  res is the vector written to *res when
\* res_written; buf_live, array_live and hdl_open tell what the call leaves
\* allocated and open; fail is kept for reference.
LoadCstringArray(file, fail) == [LcaBody(file, fail) EXCEPT !.fail = fail]

\* ------------------------------------------------------------------------
\* insert_envs_from_manifest
\* ------------------------------------------------------------------------

\* The allocation of insert_envs_from_manifest that fails in a run.  (The
\* result of alloc_concat3 is not tested by the code; PAL's allocator ends
\* the process instead of returning NULL, so no such failure is modelled.)
EnvFailures == {"none", "calloc", "malloc_copy", "rtos"}

\* The key of an environment entry that holds an '=': the code writes a NUL
\* over the first '=' and reads the entry as a C string.
KeyOf(env) == Str(SubSeq(env, 1, StrChr(env, "=") - 1))

\* toml_raw_in(toml_envs, key): the raw value of the key, NULL when the
\* table has no such key.  kv is the table's key/value pairs in declaration
\* order.
TomlRawIn(kv, key) ==
    LET hits == {i \in 1..Len(kv) : kv[i].key = key}
    IN  IF hits = {} THEN NULL ELSE kv[CHOOSE i \in hits : TRUE].val

\* alloc_concat3(key, "=", value)
AllocConcat3(key, value) == SubSeq(key, 1, StrLen(key)) \o <<"=">> \o value

\* A faulty variant of CountStep: an entry found in the manifest is counted
\* twice as overwritten.
CountStepTwice(st, toml_env_raw) ==
    [st EXCEPT !.orig = @ + 1,
               !.over = IF toml_env_raw # NULL THEN @ + 2 ELSE @]

\* One pass of the counting loop (lines 93, 99-103): orig_envs_cnt++ for the
\* entry, overwrite_cnt++ when toml_raw_in found its key.
CountStep(st, toml_env_raw) ==
    [st EXCEPT !.orig = @ + 1,
               !.over = IF toml_env_raw # NULL THEN @ + 1 ELSE @]

\* Lines 93-105: count the original entries and those whose key is in the
\* manifest, from slot i on; inval when an entry holds no '='.
RECURSIVE CountLoop(_, _, _, _)
CountLoop(envp, kv, i, st) ==
    IF envp[i] = NULL THEN st
    ELSE IF StrChr(envp[i], "=") = 0 THEN [st EXCEPT !.inval = TRUE]
    ELSE CountLoop(envp, kv, i + 1, CountStep(st, TomlRawIn(kv, KeyOf(envp[i]))))

\* A faulty variant of Keeps: no original entry is dropped.
KeepsAll(kv, env) == TRUE

\* Whether the copy loop keeps an original entry (line 121: !toml_env_raw).
Keeps(kv, env) == TomlRawIn(kv, KeyOf(env)) = NULL

\* Lines 116-132: copy the entries not overwritten by the manifest to
\* new_envp[idx++], from slot i on.  oob records a write outside new_envp.
RECURSIVE CopyLoop(_, _, _, _)
CopyLoop(envp, kv, i, st) ==
    IF envp[i] = NULL THEN st
    ELSE IF Keeps(kv, envp[i])
         THEN CopyLoop(envp, kv, i + 1,
                 [new_envp |-> IF st.idx + 1 <= Len(st.new_envp)
                               THEN [st.new_envp EXCEPT ![st.idx + 1] = envp[i]]
                               ELSE st.new_envp,
                  idx |-> st.idx + 1,
                  oob |-> st.oob \/ st.idx + 1 > Len(st.new_envp)])
         ELSE CopyLoop(envp, kv, i + 1, st)

\* Lines 135-152: append "key=value" for the manifest's pairs i, i+1, ...
RECURSIVE AppendLoop(_, _, _)
AppendLoop(kv, i, st) ==
    IF ~(i < Len(kv)) THEN st
    ELSE AppendLoop(kv, i + 1,
            [new_envp |-> IF st.idx + 1 <= Len(st.new_envp)
                          THEN [st.new_envp EXCEPT ![st.idx + 1] =
                                    AllocConcat3(kv[i + 1].key, kv[i + 1].val)]
                          ELSE st.new_envp,
             idx |-> st.idx + 1,
             oob |-> st.oob \/ st.idx + 1 > Len(st.new_envp)])

\* A faulty variant of MergeLoops: the manifest's entries first, then the
\* surviving originals.
MergeLoopsManifestFirst(envp, kv, new_envp) ==
    CopyLoop(envp, kv, 1, AppendLoop(kv, 0, [new_envp |-> new_envp, idx |-> 0, oob |-> FALSE]))

\* Lines 115-152: the copy loop, then the append loop, on the fresh new_envp.
MergeLoops(envp, kv, new_envp) ==
    AppendLoop(kv, 0, CopyLoop(envp, kv, 1, [new_envp |-> new_envp, idx |-> 0, oob |-> FALSE]))

\* A faulty variant of TotalEnvsCnt: the overwritten entries are not
\* subtracted.
TotalEnvsCntNoOverwrite(orig_envs_cnt, toml_envs_cnt, overwrite_cnt) ==
    orig_envs_cnt + toml_envs_cnt

\* Line 107: total_envs_cnt = orig_envs_cnt + toml_envs_cnt - overwrite_cnt.
\* (size_t arithmetic; the model keeps the mathematical value, so that a
\* wrap-around would show as a negative total.)
TotalEnvsCnt(orig_envs_cnt, toml_envs_cnt, overwrite_cnt) ==
    orig_envs_cnt + toml_envs_cnt - overwrite_cnt

\* The record of a call that returns before the counting loop.
NoMerge(envp) ==
    [called |-> FALSE, ret |-> OK, merged |-> FALSE, envp |-> envp,
     orig_envs_cnt |-> 0, overwrite_cnt |-> 0, toml_envs_cnt |-> 0,
     total_envs_cnt |-> 0, idx_copied |-> 0, idx_end |-> 0,
     asserts |-> 0, oob |-> FALSE]

\* insert_envs_from_manifest(&envp) with the manifest table loader.env
\* (present: the table exists; kv: its pairs) and the allocation named by
\* fail failing.  envp is *envpp at the return; merged tells that the new
\* vector was built; asserts counts the asserts on idx that were reached.
InsertEnvsFromManifest(envp, toml_envs, fail) ==
    IF ~toml_envs.present \/ Len(toml_envs.kv) <= 0
    THEN [NoMerge(envp) EXCEPT !.called = TRUE]
    ELSE
    LET kv    == toml_envs.kv
        cnt   == CountLoop(envp, kv, 1, [orig |-> 0, over |-> 0, inval |-> FALSE])
        total == TotalEnvsCnt(cnt.orig, Len(kv), cnt.over)
        fresh == [k \in 1..total + 1 |-> NULL]
        copy  == CopyLoop(envp, kv, 1, [new_envp |-> fresh, idx |-> 0, oob |-> FALSE])
        done  == MergeLoops(envp, kv, fresh)
        fails == [NoMerge(envp) EXCEPT !.called = TRUE,
                     !.orig_envs_cnt = cnt.orig, !.overwrite_cnt = cnt.over,
                     !.toml_envs_cnt = Len(kv), !.total_envs_cnt = total]
    IN  IF cnt.inval THEN [fails EXCEPT !.ret = PAL_ERROR_INVAL, !.total_envs_cnt = 0]
        ELSE IF fail = "calloc" THEN [fails EXCEPT !.ret = PAL_ERROR_NOMEM]
        ELSE IF fail = "malloc_copy" /\ copy.idx > 0
             THEN [fails EXCEPT !.ret = PAL_ERROR_NOMEM]
        ELSE IF fail = "rtos"
             THEN [fails EXCEPT !.ret = PAL_ERROR_NOMEM, !.idx_copied = copy.idx,
                                !.asserts = 1, !.oob = copy.oob]
        ELSE [called |-> TRUE, ret |-> OK, merged |-> TRUE, envp |-> done.new_envp,
              orig_envs_cnt |-> cnt.orig, overwrite_cnt |-> cnt.over,
              toml_envs_cnt |-> Len(kv), total_envs_cnt |-> total,
              idx_copied |-> copy.idx, idx_end |-> done.idx,
              asserts |-> 2, oob |-> done.oob]

\* ------------------------------------------------------------------------
\* The manifest (the TOML accessors) and the inputs of pal_main
\* ------------------------------------------------------------------------

\* A manifest key read with toml_string_in: absent, present but not a string
\* ("bad"), or a string.
AbsentStr == [kind |-> "absent", s |-> NULL]

BadStr == [kind |-> "bad", s |-> NULL]

StrVal(s) == [kind |-> "str", s |-> s]

\* A manifest key read with toml_int_in: absent, not an integer, an integer.
AbsentInt == [kind |-> "absent", v |-> 0]

BadInt == [kind |-> "bad", v |-> 0]

IntVal(v) == [kind |-> "int", v |-> v]

\* toml_string_in(root, key, &out): ret < 0 when the key is not a string,
\* out is NULL when the key is absent.
TomlStringIn(val) ==
    [ret |-> IF val.kind = "bad" THEN PAL_ERROR_DENIED ELSE OK,
     out |-> IF val.kind = "str" THEN val.s ELSE NULL]

\* toml_int_in(root, key, defaultval, &out)
TomlIntIn(val, defaultval) ==
    [ret |-> IF val.kind = "bad" THEN PAL_ERROR_DENIED ELSE OK,
     out |-> IF val.kind = "int" THEN val.v ELSE defaultval]

\* A faulty variant of SwitchRejected: any integer is let through.
SwitchRejectedLax(r) == r.ret # OK

\* The test on a 0/1 manifest switch, lines 390, 426 and 466:
\* ret < 0 || (x != 0 && x != 1).
SwitchRejected(r) == r.ret # OK \/ (r.out # 0 /\ r.out # 1)

\* URIs, as C strings.
DotManifest == <<".", "m", "a", "n", "i", "f", "e", "s", "t">>

DotManifestSgx == DotManifest \o <<".", "s", "g", "x">>

FileApp == <<"f", "i", "l", "e", ":", "a">>

\* An executable name that get_norm_path changes: "file:./a".
FileDotApp == <<"f", "i", "l", "e", ":", ".", "/", "a">>

\* URI_PREFIX_FILE "manifest", the fixed alternate location (line 310).
FileManifest == Str(<<"f", "i", "l", "e", ":">> \o Tail(DotManifest))

\* get_norm_path, as far as the model's names go: a "./" component is dropped.
RECURSIVE NormPath(_)
NormPath(t) ==
    IF Len(t) = 0 THEN t
    ELSE IF Len(t) >= 2 /\ t[1] = "." /\ t[2] = "/" THEN NormPath(SubSeq(t, 3, Len(t)))
    ELSE <<Head(t)>> \o NormPath(Tail(t))

\* strendswith(s, suffix), suffix given without its NUL.
StrEndsWith(s, suffix) ==
    /\ StrLen(s) >= Len(suffix)
    /\ SubSeq(s, StrLen(s) - Len(suffix) + 1, StrLen(s)) = suffix

\* alloc_concat(s, len, NULL, 0): the first len characters of s.
AllocConcat(s, n) == Str(SubSeq(s, 1, n))

\* The values of loader.debug_type the code names, and one it does not.
DebugInline == Str(<<"inline">>)

DebugFile == Str(<<"file">>)

DebugNone == Str(<<"none">>)

DebugOther == Str(<<"syslog">>)

\* The paths given in the manifest as loader.argv_src_file,
\* loader.env_src_file and loader.debug_file, and the console of line 176.
ArgvPath == Str(<<"file:argv">>)

EnvPath == Str(<<"file:env">>)

DebugPath == Str(<<"file:debug">>)

DevTty == Str(<<"dev:tty">>)

\* The manifest every family of inputs starts from: host arguments are
\* trusted, everything else is absent.
DefaultManifest ==
    [exec |-> AbsentStr, disable_aslr |-> AbsentInt, argv0_override |-> AbsentStr,
     use_cmdline_argv |-> IntVal(1), argv_src_file |-> AbsentStr,
     use_host_env |-> AbsentInt, env_src_file |-> AbsentStr,
     env |-> [present |-> FALSE, kv |-> << >>],
     preload |-> AbsentStr, debug_type |-> AbsentStr, debug_file |-> AbsentStr]

\* The inputs every family starts from: both handles supplied by the host,
\* the executable not yet mapped, argv[0] only, an empty host environment.
DefaultInput ==
    [manifest_handle |-> Str(FileApp \o DotManifest), exec_handle |-> Str(FileApp),
     exec_loaded_addr |-> FALSE, manifest_root_preset |-> FALSE,
     arguments |-> Vec(<<Str(<<"p">>)>>), environments |-> Vec(<< >>),
     manifest |-> DefaultManifest, argv_file |-> << >>, env_file |-> << >>]

\* ------------------------------------------------------------------------
\* Bounds and the families of inputs
\* ------------------------------------------------------------------------

\* The largest number of host arguments.
MaxArgs == 2

\* The largest number of host environment entries.
MaxEnvs == 2

\* The largest number of C strings in an argv / environment source file.
MaxFileStrs == 2

\* The largest length of loader.preload.
MaxPreloadLen == 4

\* The largest length of loader.preload given to load_libraries alone.
MaxScanLen == 4

\* The largest size, in bytes, of a file given to load_cstring_array alone.
MaxBufLen == 4

\* The largest number of entries of an environment, and of pairs of
\* loader.env, given to insert_envs_from_manifest alone.
MaxMergeEnvs == 3

MaxTomlEnvs == 2

ArgStrs == {Str(<<"p">>), Str(<<"x">>)}

HostArgvs == {Vec(v) : v \in SeqUpTo(ArgStrs, MaxArgs)}

HostEnvStrs == {Str(<<"A", "=", "h">>), Str(<<"B", "=", "h">>)}

HostEnvps == {Vec(v) : v \in SeqUpTo(HostEnvStrs, MaxEnvs)}

\* The files holding at most MaxFileStrs of the strings strs, and the same
\* files cut short of their last byte.
FilesOf(strs) ==
    LET whole == {Concat(v) : v \in SeqUpTo(strs, MaxFileStrs)}
    IN  whole \cup {SubSeq(f, 1, Len(f) - 1) : f \in whole \ {<< >>}}

ArgvFiles == FilesOf({Str(<<"a">>), Str(<<"b">>)})

\* An environment file may hold a string without '='.
EnvFiles == FilesOf({Str(<<"A", "=", "f">>), Str(<<"D">>)})

\* loader.env: absent, empty, or key/value pairs in declaration order.
KV(k, v) == [key |-> Str(<<k>>), val |-> Str(<<v>>)]

EnvTables ==
    {[present |-> FALSE, kv |-> << >>]} \cup
    {[present |-> TRUE, kv |-> t] :
        t \in {<< >>, <<KV("A", "m")>>, <<KV("C", "m"), KV("A", "n")>>}}

StrSwitches == {AbsentStr, BadStr}

IntSwitches == {AbsentInt, BadInt, IntVal(0), IntVal(1), IntVal(2), IntVal(-1)}

\* The argument family: every combination of the three argv keys, of the
\* host arguments and (when loader.argv_src_file is set) of the file.
ArgvInputs ==
    {[DefaultInput EXCEPT !.arguments = a, !.argv_file = f[2],
         !.manifest = [DefaultManifest EXCEPT !.argv0_override = o,
                          !.use_cmdline_argv = u, !.argv_src_file = f[1]]] :
        a \in HostArgvs, o \in StrSwitches \cup {StrVal(Str(<<"o">>))},
        u \in IntSwitches,
        f \in ({AbsentStr, BadStr} \X {<< >>}) \cup ({StrVal(ArgvPath)} \X ArgvFiles)}

\* The environment family: every combination of the two environment keys,
\* of loader.env, of the host environment and of the file.
EnvInputs ==
    {[DefaultInput EXCEPT !.environments = e, !.env_file = f[2],
         !.manifest = [DefaultManifest EXCEPT !.use_host_env = u,
                          !.env_src_file = f[1], !.env = t]] :
        e \in HostEnvps, u \in IntSwitches, t \in EnvTables,
        f \in ({AbsentStr, BadStr} \X {<< >>}) \cup ({StrVal(EnvPath)} \X EnvFiles)}

\* The handle family: which handles the host supplies, under which names,
\* and whether the manifest holds the deprecated loader.exec.
HandleInputs ==
    {[DefaultInput EXCEPT !.manifest_handle = m, !.exec_handle = x[1],
         !.exec_loaded_addr = x[2], !.manifest_root_preset = r,
         !.manifest = [DefaultManifest EXCEPT !.exec = k]] :
        m \in {NULL, Str(FileApp \o DotManifest), Str(FileApp \o DotManifestSgx),
               Str(FileApp \o <<".", "c", "f", "g">>)},
        x \in {<<NULL, FALSE>>, <<Str(FileApp), FALSE>>, <<Str(FileApp), TRUE>>,
               <<Str(FileDotApp), FALSE>>},
        r \in BOOLEAN,
        k \in StrSwitches \cup {StrVal(Str(FileApp)), StrVal(Str(<< >>))}}

\* The values of loader.preload: every string of at most MaxPreloadLen
\* characters over a letter and the comma.
PreloadStrs == {Str(t) : t \in SeqUpTo({"a", ","}, MaxPreloadLen)}

\* The switch family: loader.insecure__disable_aslr, loader.preload,
\* loader.debug_type and loader.debug_file, one group at a time.
SwitchInputs ==
    {[DefaultInput EXCEPT !.manifest = [DefaultManifest EXCEPT !.disable_aslr = u]] :
        u \in IntSwitches}
    \cup
    {[DefaultInput EXCEPT !.manifest = [DefaultManifest EXCEPT !.preload = l]] :
        l \in StrSwitches \cup {StrVal(s) : s \in PreloadStrs}}
    \cup
    {[DefaultInput EXCEPT !.manifest = [DefaultManifest EXCEPT !.debug_type = t,
                                                                  !.debug_file = f]] :
        t \in StrSwitches \cup
              {StrVal(DebugInline), StrVal(DebugFile), StrVal(DebugNone), StrVal(DebugOther)},
        f \in StrSwitches \cup {StrVal(DebugPath)}}

Inputs == ArgvInputs \cup EnvInputs \cup HandleInputs \cup SwitchInputs

\* ------------------------------------------------------------------------
\* The state of pal_main
\* ------------------------------------------------------------------------

VARIABLES
    in,                 \* what the host and the manifest give (never changed)
    pc,                 \* the step of pal_main to execute next
    fatal_msg,          \* the message of INIT_FAIL, "" before
    log,                \* the steps executed so far, in order
    manifest_handle, exec_handle, manifest_uri, exec_uri,
    g_pal_state, g_pal_control,
    disable_aslr, argv0_overridden, use_cmdline_argv, use_host_env,
    arguments, environments,
    lca,                \* the last call of load_cstring_array
    ienv,               \* the call of insert_envs_from_manifest
    preload_str, len, c, library_name,
    loads,              \* the load_elf_object calls, in order
    opens               \* the _DkStreamOpen calls, in order

handles == <<manifest_handle, exec_handle, manifest_uri, exec_uri>>

globals == <<g_pal_state, g_pal_control>>

switches == <<disable_aslr, argv0_overridden, use_cmdline_argv, use_host_env>>

vectors == <<arguments, environments, lca, ienv>>

libs == <<preload_str, len, c, library_name>>

calls == <<loads, opens>>

\* Everything but the control state.
data == <<in, handles, globals, switches, vectors, libs, calls>>

vars == <<pc, fatal_msg, log, data>>

\* The fields of g_pal_control in the order pal_main writes them.
ControlFields ==
    <<"host_type", "process_id", "host_id", "manifest_handle", "executable",
      "parent_process", "first_thread", "disable_aslr", "user_address",
      "alloc_align", "cpu_info", "mem_info">>

\* The state at the entry of pal_main: the globals are zeroed, the locals
\* not yet assigned, the arguments those of the host.
InitOn(input, start) ==
    /\ in = input
    /\ pc = start
    /\ fatal_msg = ""
    /\ log = << >>
    /\ manifest_handle = input.manifest_handle
    /\ exec_handle = input.exec_handle
    /\ manifest_uri = NULL
    /\ exec_uri = NULL
    /\ g_pal_state = [seeded |-> FALSE, manifest_root |-> input.manifest_root_preset,
                      committed |-> FALSE, manifest |-> NULL, manifest_handle |-> NULL,
                      exec |-> NULL, exec_handle |-> NULL]
    /\ g_pal_control = [written |-> << >>, debug_stream |-> NULL, manifest_handle |-> NULL,
                        executable |-> NULL, disable_aslr |-> FALSE]
    /\ disable_aslr = FALSE
    /\ argv0_overridden = FALSE
    /\ use_cmdline_argv = 0
    /\ use_host_env = 0
    /\ arguments = input.arguments
    /\ environments = input.environments
    /\ lca = NoLca
    /\ ienv = NoMerge(input.environments)
    /\ preload_str = NULL
    /\ len = 0
    /\ c = 0
    /\ library_name = 0
    /\ loads = << >>
    /\ opens = << >>

Init == \E input \in Inputs : InitOn(input, "seed")

\* The step at pc is done and control goes on to next.
Goto(next) ==
    /\ pc' = next
    /\ log' = Append(log, pc)
    /\ fatal_msg' = fatal_msg

\* INIT_FAIL / INIT_FAIL_MANIFEST: the message is printed and the process
\* exits; no step follows.
Fatal(msg) ==
    /\ pc' = "fatal"
    /\ log' = Append(log, pc)
    /\ fatal_msg' = msg

\* ------------------------------------------------------------------------
\* pal_main, lines 268-395
\* ------------------------------------------------------------------------

\* Lines 268-274.
Seed ==
    /\ pc = "seed"
    /\ Goto("exec_name")
    /\ g_pal_state' = [g_pal_state EXCEPT !.seeded = TRUE]
    /\ UNCHANGED <<in, handles, g_pal_control, switches, vectors, libs, calls>>

\* Lines 281-287.
ExecName ==
    /\ pc = "exec_name"
    /\ \/ /\ exec_handle # NULL
          /\ Fatal("Cannot get executable name")
          /\ UNCHANGED data
       \/ /\ Goto("manifest_name")
          /\ exec_uri' = IF exec_handle # NULL THEN exec_handle ELSE exec_uri
          /\ UNCHANGED <<in, manifest_handle, exec_handle, manifest_uri, globals,
                         switches, vectors, libs, calls>>

\* A faulty variant of FirstManifestName: the executable's name is used as
\* it is.
FirstManifestNameRaw(uri) == Str(SubSeq(uri, 1, StrLen(uri)) \o DotManifest)

\* The name tried first when the host gives no manifest handle, lines 301-306.
FirstManifestName(uri) == Str(NormPath(SubSeq(uri, 1, StrLen(uri))) \o DotManifest)

\* Lines 289-316.
ManifestName ==
    /\ pc = "manifest_name"
    /\ \/ /\ manifest_handle # NULL
          /\ \/ /\ Fatal("Cannot get manifest name")
                /\ UNCHANGED data
             \/ /\ Goto("load_manifest")
                /\ manifest_uri' = manifest_handle
                /\ UNCHANGED <<in, manifest_handle, exec_handle, exec_uri, globals,
                               switches, vectors, libs, calls>>
       \/ /\ manifest_handle = NULL
          /\ exec_handle = NULL
          /\ Fatal("Must have manifest or executable")
          /\ UNCHANGED data
       \/ /\ manifest_handle = NULL
          /\ exec_handle # NULL
          /\ \/ /\ Fatal("Cannot normalize exec_uri")
                /\ UNCHANGED data
             \/ \* "<execname>.manifest" opens
                /\ Goto("load_manifest")
                /\ manifest_handle' = FirstManifestName(exec_uri)
                /\ opens' = Append(opens, [uri |-> FirstManifestName(exec_uri), ok |-> TRUE])
                /\ UNCHANGED <<in, exec_handle, manifest_uri, exec_uri, globals,
                               switches, vectors, libs, loads>>
             \/ \* it does not, "file:manifest" is tried
                \E ok \in BOOLEAN :
                   /\ IF ok THEN Goto("load_manifest") ELSE Fatal("Cannot find manifest file")
                   /\ manifest_uri' = FileManifest
                   /\ manifest_handle' = IF ok THEN FileManifest ELSE NULL
                   /\ opens' = opens \o
                         <<[uri |-> FirstManifestName(exec_uri), ok |-> FALSE],
                           [uri |-> FileManifest, ok |-> ok]>>
                   /\ UNCHANGED <<in, exec_handle, exec_uri, globals,
                                  switches, vectors, libs, loads>>

\* Lines 318-336.
LoadManifest ==
    /\ pc = "load_manifest"
    /\ IF ~g_pal_state.manifest_root /\ manifest_handle # NULL
       THEN \/ /\ \E msg \in {"Cannot open manifest file", "Cannot parse the manifest"} :
                     Fatal(msg)
               /\ UNCHANGED data
            \/ /\ Goto("reject_exec_key")
               /\ g_pal_state' = [g_pal_state EXCEPT !.manifest_root = TRUE]
               /\ UNCHANGED <<in, handles, g_pal_control, switches, vectors, libs, calls>>
       ELSE /\ Goto("reject_exec_key")
            /\ UNCHANGED data

\* A faulty variant of ExecKeyRejected: only an unparsable loader.exec is
\* refused.
ExecKeyRejectedOnError(r) == r.ret # OK

\* Line 341: ret < 0 || dummy_exec_str.
ExecKeyRejected(r) == r.ret # OK \/ r.out # NULL

\* Lines 338-344.
RejectExecKey ==
    /\ pc = "reject_exec_key"
    /\ LET r == TomlStringIn(in.manifest.exec)
       IN  IF g_pal_state.manifest_root /\ ExecKeyRejected(r)
           THEN Fatal("loader.exec is not supported anymore")
           ELSE Goto("derive_exec")
    /\ UNCHANGED data

\* Lines 351-357: the length of the executable's name inside manifest_uri,
\* -1 when the manifest's name has no recognized suffix (success = false).
ExecUriLen(uri) ==
    IF StrEndsWith(uri, DotManifest) THEN StrLen(uri) - 9
    ELSE IF StrEndsWith(uri, DotManifestSgx) THEN StrLen(uri) - 13
    ELSE -1

\* Lines 346-367.
DeriveExec ==
    /\ pc = "derive_exec"
    /\ IF exec_handle = NULL /\ manifest_uri # NULL /\ ExecUriLen(manifest_uri) >= 0
       THEN LET name == AllocConcat(manifest_uri, ExecUriLen(manifest_uri))
            IN  \/ /\ Fatal("Cannot allocate URI buf")
                   /\ UNCHANGED data
                \/ \E ok \in BOOLEAN :
                      /\ IF ok THEN Goto("check_elf") ELSE Fatal("Cannot open the executable")
                      /\ exec_uri' = name
                      /\ exec_handle' = IF ok THEN name ELSE NULL
                      /\ opens' = Append(opens, [uri |-> name, ok |-> ok])
                      /\ UNCHANGED <<in, manifest_handle, manifest_uri, globals,
                                     switches, vectors, libs, loads>>
       ELSE /\ Goto("check_elf")
            /\ UNCHANGED data

\* Lines 369-378: has_elf_magic / is_elf_object answer for the image.
CheckElf ==
    /\ pc = "check_elf"
    /\ \/ /\ exec_handle # NULL
          /\ Fatal("Executable is not an ELF binary")
       \/ Goto("commit")
    /\ UNCHANGED data

\* Lines 380-383.
Commit ==
    /\ pc = "commit"
    /\ Goto("aslr")
    /\ g_pal_state' = [g_pal_state EXCEPT !.committed = TRUE,
                          !.manifest = manifest_uri, !.manifest_handle = manifest_handle,
                          !.exec = exec_uri, !.exec_handle = exec_handle]
    /\ UNCHANGED <<in, handles, g_pal_control, switches, vectors, libs, calls>>

\* Lines 385-395.
Aslr ==
    /\ pc = "aslr"
    /\ LET r == TomlIntIn(in.manifest.disable_aslr, 0)
       IN  IF g_pal_state.manifest_root
           THEN IF SwitchRejected(r)
                THEN /\ Fatal("Cannot parse 'loader.insecure__disable_aslr'")
                     /\ UNCHANGED disable_aslr
                ELSE /\ Goto("argv0_override")
                     /\ disable_aslr' = (r.out # 0)
           ELSE /\ Goto("argv0_override")
                /\ UNCHANGED disable_aslr
    /\ UNCHANGED <<in, handles, globals, argv0_overridden, use_cmdline_argv,
                   use_host_env, vectors, libs, calls>>

\* ------------------------------------------------------------------------
\* pal_main, lines 397-460: the arguments
\* ------------------------------------------------------------------------

\* A faulty variant of Argv0Rewrite: every slot becomes the override.
Argv0RewriteAll(args, override) ==
    [k \in 1..(IF args[1] = NULL THEN 2 ELSE Len(args)) |->
        IF k = (IF args[1] = NULL THEN 2 ELSE Len(args)) THEN NULL ELSE override]

\* Lines 412-418: slot 0 becomes the override; a vector without any argument
\* is replaced by a fresh two-slot one.
Argv0Rewrite(args, override) ==
    IF args[1] = NULL THEN <<override, NULL>> ELSE [args EXCEPT ![1] = override]

\* Lines 403-420.
Argv0Override ==
    /\ pc = "argv0_override"
    /\ LET r == TomlStringIn(in.manifest.argv0_override)
       IN  IF g_pal_state.manifest_root /\ r.ret # OK
           THEN /\ Fatal("Cannot parse 'loader.argv0_override'")
                /\ UNCHANGED <<argv0_overridden, arguments>>
           ELSE IF g_pal_state.manifest_root /\ r.out # NULL
           THEN \/ /\ arguments[1] = NULL
                   /\ Fatal("malloc() failed")
                   /\ argv0_overridden' = TRUE
                   /\ UNCHANGED arguments
                \/ /\ Goto("use_cmdline_argv")
                   /\ argv0_overridden' = TRUE
                   /\ arguments' = Argv0Rewrite(arguments, r.out)
           ELSE /\ Goto("use_cmdline_argv")
                /\ UNCHANGED <<argv0_overridden, arguments>>
    /\ UNCHANGED <<in, handles, globals, disable_aslr, use_cmdline_argv, use_host_env,
                   environments, lca, ienv, libs, calls>>

\* Lines 422-430.
UseCmdlineArgv ==
    /\ pc = "use_cmdline_argv"
    /\ LET r == TomlIntIn(in.manifest.use_cmdline_argv, 0)
       IN  IF g_pal_state.manifest_root
           THEN IF SwitchRejected(r)
                THEN /\ Fatal("Cannot parse 'loader.insecure__use_cmdline_argv'")
                     /\ use_cmdline_argv' = IF r.ret = OK THEN r.out ELSE use_cmdline_argv
                ELSE /\ Goto("argv_source")
                     /\ use_cmdline_argv' = r.out
           ELSE /\ Goto("argv_source")
                /\ UNCHANGED use_cmdline_argv
    /\ UNCHANGED <<in, handles, globals, disable_aslr, argv0_overridden, use_host_env,
                   vectors, libs, calls>>

\* arguments[0] && arguments[1]
HasSecond(args) == args[1] # NULL /\ args[2] # NULL

\* A faulty variant of ArgvRefused: an override lets any host vector pass.
ArgvRefusedWithoutOverride(overridden, args) == ~overridden

\* A faulty variant of ArgvRefused: only a second host argument is refused.
ArgvRefusedOnlySecond(overridden, args) == HasSecond(args)

\* Line 456: the host arguments are refused.
ArgvRefused(overridden, args) == ~overridden \/ HasSecond(args)

\* A faulty variant of AfterLoad: slot 0 of the old vector stays in front.
AfterLoadKeepFirst(call, old) ==
    IF call.res_written /\ old[1] # NULL THEN <<old[1]>> \o call.res
    ELSE IF call.res_written THEN call.res ELSE old

\* "*res = array" seen from the caller (lines 249, 451 and 496): the vector
\* is replaced by the one loaded, or left alone when the call wrote none.
AfterLoad(call, old) == IF call.res_written THEN call.res ELSE old

\* Lines 432-460.
ArgvSource ==
    /\ pc = "argv_source"
    /\ LET r == IF g_pal_state.manifest_root
                THEN TomlStringIn(in.manifest.argv_src_file)
                ELSE [ret |-> OK, out |-> NULL]
       IN  IF use_cmdline_argv # 0
           THEN /\ Goto("use_host_env")
                /\ UNCHANGED <<arguments, lca, opens>>
           ELSE IF r.ret # OK
           THEN /\ Fatal("Cannot parse 'loader.argv_src_file'")
                /\ UNCHANGED <<arguments, lca, opens>>
           ELSE IF r.out # NULL
           THEN \E fail \in LcaFailures :
                   LET call == LoadCstringArray(in.argv_file, fail)
                   IN  /\ lca' = call
                       /\ arguments' = AfterLoad(call, arguments)
                       /\ opens' = Append(opens, [uri |-> r.out, ok |-> fail # "open"])
                       /\ IF call.ret # OK
                          THEN Fatal("Cannot load arguments from 'loader.argv_src_file'")
                          ELSE Goto("use_host_env")
           ELSE IF ArgvRefused(argv0_overridden, arguments)
           THEN /\ Fatal("argv handling wasn't configured in the manifest")
                /\ UNCHANGED <<arguments, lca, opens>>
           ELSE /\ Goto("use_host_env")
                /\ UNCHANGED <<arguments, lca, opens>>
    /\ UNCHANGED <<in, handles, globals, switches, environments, ienv, libs, loads>>

\* ------------------------------------------------------------------------
\* pal_main, lines 462-507: the environment
\* ------------------------------------------------------------------------

\* A faulty variant of EnvAfterSwitch: the host environment is always kept.
EnvAfterSwitchKept(use, envp) == envp

\* Lines 472-480: the host environment is kept, or replaced by an empty one.
EnvAfterSwitch(use, envp) == IF use # 0 THEN envp ELSE <<NULL>>

\* Lines 462-480.
UseHostEnv ==
    /\ pc = "use_host_env"
    /\ LET r == TomlIntIn(in.manifest.use_host_env, 0)
       IN  IF g_pal_state.manifest_root /\ SwitchRejected(r)
           THEN /\ Fatal("Cannot parse 'loader.insecure__use_host_env'")
                /\ use_host_env' = IF r.ret = OK THEN r.out ELSE use_host_env
                /\ UNCHANGED environments
           ELSE LET use == IF g_pal_state.manifest_root THEN r.out ELSE 0
                IN  \/ /\ use = 0
                       /\ Fatal("Out of memory")
                       /\ use_host_env' = use
                       /\ UNCHANGED environments
                    \/ /\ Goto("env_src_file")
                       /\ use_host_env' = use
                       /\ environments' = EnvAfterSwitch(use, environments)
    /\ UNCHANGED <<in, handles, globals, disable_aslr, argv0_overridden, use_cmdline_argv,
                   arguments, lca, ienv, libs, calls>>

\* A faulty variant of EnvConflict: the two sources are never in conflict.
EnvConflictIgnored(use, src) == FALSE

\* Line 489: both sources of the environment are configured.
EnvConflict(use, src) == use # 0 /\ src # NULL

\* Lines 482-500.
EnvSrcFile ==
    /\ pc = "env_src_file"
    /\ LET r == IF g_pal_state.manifest_root
                THEN TomlStringIn(in.manifest.env_src_file)
                ELSE [ret |-> OK, out |-> NULL]
       IN  IF r.ret # OK
           THEN /\ Fatal("Cannot parse 'loader.env_src_file'")
                /\ UNCHANGED <<environments, lca, opens>>
           ELSE IF EnvConflict(use_host_env, r.out)
           THEN /\ Fatal("Wrong manifest configuration")
                /\ UNCHANGED <<environments, lca, opens>>
           ELSE IF r.out # NULL
           THEN \E fail \in LcaFailures :
                   LET call == LoadCstringArray(in.env_file, fail)
                   IN  /\ lca' = call
                       /\ environments' = AfterLoad(call, environments)
                       /\ opens' = Append(opens, [uri |-> r.out, ok |-> fail # "open"])
                       /\ IF call.ret # OK
                          THEN Fatal("Cannot load environment variables from 'loader.env_src_file'")
                          ELSE Goto("insert_envs")
           ELSE /\ Goto("insert_envs")
                /\ UNCHANGED <<environments, lca, opens>>
    /\ UNCHANGED <<in, handles, globals, switches, arguments, ienv, libs, loads>>

\* Lines 505-507.
InsertEnvs ==
    /\ pc = "insert_envs"
    /\ \E fail \in EnvFailures :
          LET call == IF g_pal_state.manifest_root
                      THEN InsertEnvsFromManifest(environments, in.manifest.env, fail)
                      ELSE [NoMerge(environments) EXCEPT !.called = TRUE]
          IN  /\ ienv' = call
              /\ environments' = call.envp
              /\ IF call.ret # OK
                 THEN Fatal("Inserting environment variables from the manifest failed")
                 ELSE Goto("load_libraries")
    /\ UNCHANGED <<in, handles, globals, switches, arguments, lca, libs, calls>>

\* ------------------------------------------------------------------------
\* load_libraries
\* ------------------------------------------------------------------------

\* Lines 34-51: the option is read; the scan starts on a non-empty string.
LoadLibraries ==
    /\ pc = "load_libraries"
    /\ LET r == TomlStringIn(in.manifest.preload)
       IN  IF ~g_pal_state.manifest_root
           THEN /\ Goto("load_exec")
                /\ UNCHANGED libs
           ELSE IF r.ret # OK
           THEN /\ Fatal("Cannot parse 'loader.preload'")
                /\ UNCHANGED libs
           ELSE IF r.out = NULL \/ StrLen(r.out) = 0
           THEN /\ Goto("load_exec")
                /\ preload_str' = r.out
                /\ len' = IF r.out = NULL THEN len ELSE StrLen(r.out)
                /\ UNCHANGED <<c, library_name>>
           ELSE /\ Goto("lib_scan")
                /\ preload_str' = r.out
                /\ len' = StrLen(r.out)
                /\ c' = 0
                /\ library_name' = 0
    /\ UNCHANGED <<in, handles, globals, switches, vectors, calls>>

\* Line 53: the character at c ends a segment.
EndsSegment(ch) == ch = "," \/ ch = NUL

\* A faulty variant of SegmentNonEmpty: an empty segment is loaded too.
SegmentNonEmptyAlways(cc, name) == TRUE

\* Line 54: the segment that ends at c is not empty.
SegmentNonEmpty(cc, name) == cc > name

\* A faulty variant of LoadFailed: the scan goes on after a failed load.
LoadFailedIgnored(ok) == FALSE

\* Line 56: (ret = load_elf_object(library_name, OBJECT_PRELOAD)) < 0.
LoadFailed(ok) == ~ok

\* Lines 52-65: one iteration of the loop, at the character c (c and
\* library_name are offsets from preload_str).
LibScan ==
    /\ pc = "lib_scan"
    /\ c <= Len(preload_str) - 1
    /\ LET ch    == preload_str[c + 1]
           cut   == [preload_str EXCEPT ![c + 1] = NUL]
           name  == StrAt(cut, library_name + 1)
       IN  IF EndsSegment(ch)
           THEN IF SegmentNonEmpty(c, library_name)
                THEN \E ok \in BOOLEAN :
                        /\ preload_str' = cut
                        /\ loads' = Append(loads, [name |-> name, type |-> "OBJECT_PRELOAD",
                                                   ok |-> ok])
                        /\ IF LoadFailed(ok)
                           THEN /\ Fatal("Unable to load preload library")
                                /\ UNCHANGED <<c, library_name>>
                           ELSE IF c = len
                           THEN /\ Goto("load_exec")
                                /\ UNCHANGED <<c, library_name>>
                           ELSE /\ Goto("lib_scan")
                                /\ library_name' = c + 1
                                /\ c' = c + 1
                ELSE /\ UNCHANGED <<preload_str, loads>>
                     /\ IF c = len
                        THEN /\ Goto("load_exec")
                             /\ UNCHANGED <<c, library_name>>
                        ELSE /\ Goto("lib_scan")
                             /\ library_name' = c + 1
                             /\ c' = c + 1
           ELSE /\ Goto("lib_scan")
                /\ c' = c + 1
                /\ UNCHANGED <<preload_str, library_name, loads>>
    /\ UNCHANGED <<in, handles, globals, switches, vectors, len, opens>>

\* ------------------------------------------------------------------------
\* pal_main, lines 511-549
\* ------------------------------------------------------------------------

\* Lines 511-520.
LoadExec ==
    /\ pc = "load_exec"
    /\ IF exec_handle # NULL
       THEN \E ok \in BOOLEAN :
               /\ loads' = Append(loads, [name |-> exec_handle, type |-> "OBJECT_EXEC",
                                          ok |-> ok])
               /\ IF ok THEN Goto("set_debug_type")
                  ELSE Fatal("pal_strerror(ret)")
       ELSE /\ Goto("set_debug_type")
            /\ UNCHANGED loads
    /\ UNCHANGED <<in, handles, globals, switches, vectors, libs, opens>>

\* A faulty variant of PublishDebug: the handle opened is dropped.
PublishDebugNothing(handle) ==
    g_pal_control' = [g_pal_control EXCEPT !.debug_stream = NULL,
                         !.written = Append(@, "debug_stream")]

\* Line 198: g_pal_control.debug_stream = handle.
PublishDebug(handle) ==
    g_pal_control' = [g_pal_control EXCEPT !.debug_stream = handle,
                         !.written = Append(@, "debug_stream")]

\* Lines 176, 183 and 195-198: the debug stream is opened and published, or
\* the failure to open it is fatal.
OpenDebug(uri) ==
    \E ok \in BOOLEAN :
       /\ opens' = Append(opens, [uri |-> uri, ok |-> ok])
       /\ IF ok THEN Goto("control") /\ PublishDebug(uri)
          ELSE Fatal("Cannot open debug stream") /\ UNCHANGED g_pal_control

\* set_debug_type, lines 159-199.
SetDebugType ==
    /\ pc = "set_debug_type"
    /\ LET t == TomlStringIn(in.manifest.debug_type)
           f == TomlStringIn(in.manifest.debug_file)
       IN  IF ~g_pal_state.manifest_root
           THEN /\ Goto("control")
                /\ UNCHANGED <<g_pal_control, opens>>
           ELSE IF t.ret # OK
           THEN /\ Fatal("Cannot parse 'loader.debug_type'")
                /\ UNCHANGED <<g_pal_control, opens>>
           ELSE IF t.out = NULL
           THEN /\ Goto("control")
                /\ UNCHANGED <<g_pal_control, opens>>
           ELSE IF t.out = DebugInline
           THEN OpenDebug(DevTty)
           ELSE IF t.out = DebugFile
           THEN IF f.ret # OK \/ f.out = NULL
                THEN /\ Fatal("Cannot find/parse 'loader.debug_file'")
                     /\ UNCHANGED <<g_pal_control, opens>>
                ELSE OpenDebug(f.out)
           ELSE IF t.out = DebugNone
           THEN /\ Goto("control")
                /\ PublishDebug(NULL)
                /\ UNCHANGED opens
           ELSE /\ Fatal("Unknown 'loader.debug_type'")
                /\ UNCHANGED <<g_pal_control, opens>>
    /\ UNCHANGED <<in, handles, g_pal_state, switches, vectors, libs, loads>>

\* A faulty variant of Control: the application is started on a control
\* block that was not filled in.
ControlSkipped ==
    /\ pc = "control"
    /\ Goto("start_execution")
    /\ UNCHANGED data

\* Lines 524-541: the control block is written field by field; when
\* _DkGetCPUInfo fails the fields after alloc_align stay unwritten and
\* control goes to out_fail.
Control ==
    /\ pc = "control"
    /\ \E cpu_ok \in BOOLEAN :
          /\ IF cpu_ok THEN Goto("start_execution") ELSE Fatal("unexpected termination")
          /\ g_pal_control' =
                [g_pal_control EXCEPT
                    !.manifest_handle = manifest_handle,
                    !.executable = exec_uri,
                    !.disable_aslr = disable_aslr,
                    !.written = @ \o (IF cpu_ok THEN ControlFields
                                      ELSE SubSeq(ControlFields, 1, 10))]
    /\ UNCHANGED <<in, handles, g_pal_state, switches, vectors, libs, calls>>

\* Line 544: control is handed to the application with the vectors built.
StartExecution ==
    /\ pc = "start_execution"
    /\ Goto("started")
    /\ UNCHANGED data

\* A faulty variant of ExecutionReturns: pal_main returns to its caller.
ExecutionReturnsToCaller ==
    /\ pc = "started"
    /\ Goto("returned")
    /\ UNCHANGED data

\* Lines 546-548: start_execution came back.
ExecutionReturns ==
    /\ pc = "started"
    /\ Fatal("unexpected termination")
    /\ UNCHANGED data

\* The steps of pal_main itself.
Bootstrap ==
    \/ Seed \/ ExecName \/ ManifestName \/ LoadManifest \/ RejectExecKey
    \/ DeriveExec \/ CheckElf \/ Commit \/ Aslr
    \/ Argv0Override \/ UseCmdlineArgv \/ ArgvSource
    \/ UseHostEnv \/ EnvSrcFile \/ InsertEnvs
    \/ LoadLibraries \/ LibScan \/ LoadExec \/ SetDebugType \/ Control
    \/ StartExecution

Next == Bootstrap \/ ExecutionReturns

Spec == Init /\ [][Next]_vars

\* The inputs of the runs followed to their end: the handle and switch
\* families, and of the argument and environment families the vectors and
\* files that make every step take each of its branches (no host string,
\* one, two; an empty file, a well-formed one, one cut short, an
\* environment string without '=').
LiveArgvs == {Vec(<< >>), Vec(<<Str(<<"p">>)>>), Vec(<<Str(<<"p">>), Str(<<"x">>)>>)}

LiveEnvps == {Vec(<< >>), Vec(<<Str(<<"A", "=", "h">>)>>)}

LiveArgvFiles == {<< >>, <<"a", NUL>>, <<"a">>}

LiveEnvFiles == {<< >>, <<"A", "=", "f", NUL>>, <<"D", NUL>>, <<"D">>}

LiveInputs ==
    HandleInputs \cup SwitchInputs \cup
    {i \in ArgvInputs : i.arguments \in LiveArgvs /\ i.argv_file \in LiveArgvFiles} \cup
    {i \in EnvInputs : i.environments \in LiveEnvps /\ i.env_file \in LiveEnvFiles}

InitLive == \E input \in LiveInputs : InitOn(input, "seed")

\* pal_main runs on as long as it has a step to take (every call it makes
\* returns); whether the application ever returns is left open.
SpecLive == InitLive /\ [][Next]_vars /\ WF_vars(Bootstrap)

\* The application entry point was called.
Started == \E i \in DOMAIN log : log[i] = "start_execution"

\* ------------------------------------------------------------------------
\* load_cstring_array on its own: every file of at most MaxBufLen bytes
\* ------------------------------------------------------------------------

LcaFiles == SeqUpTo({NUL, "a", "b"}, MaxBufLen)

InitLca ==
    \E f \in LcaFiles :
       InitOn([DefaultInput EXCEPT !.argv_file = f], "call_load_cstring_array")

\* ret = load_cstring_array(uri, &arguments)
CallLoadCstringArray ==
    /\ pc = "call_load_cstring_array"
    /\ \E fail \in LcaFailures :
          LET call == LoadCstringArray(in.argv_file, fail)
          IN  /\ lca' = call
              /\ arguments' = AfterLoad(call, arguments)
              /\ opens' = Append(opens, [uri |-> ArgvPath, ok |-> fail # "open"])
    /\ Goto("returned")
    /\ UNCHANGED <<in, handles, globals, switches, environments, ienv, libs, loads>>

SpecLca == InitLca /\ [][CallLoadCstringArray]_vars

\* The number of NUL bytes of f, the position of the k-th of them, the
\* position where the k-th NUL-delimited segment starts, and the segments.
NulCount(f) == Cardinality({i \in 1..Len(f) : f[i] = NUL})

NthNul(f, k) ==
    CHOOSE p \in 1..Len(f) :
        f[p] = NUL /\ Cardinality({i \in 1..p : f[i] = NUL}) = k

SegmentStart(f, k) == IF k = 1 THEN 1 ELSE NthNul(f, k - 1) + 1

NulSegments(f) == [k \in 1..NulCount(f) |-> SubSeq(f, SegmentStart(f, k), NthNul(f, k))]

WellFormed(f) == f = << >> \/ f[Len(f)] = NUL

\* C8: when no host call fails, load_cstring_array succeeds on every file
\* that is empty or ends with NUL: it leaves in *res one pointer per NUL
\* byte, the first to the start of the buffer and the next ones right after
\* each NUL but the last, all inside the buffer, followed by NULL, so that
\* the vector is the sequence of the NUL-delimited segments ("a\0b\0" gives
\* ["a","b"], the empty file only the NULL marker); a non-empty file whose
\* last byte is not NUL is rejected with PAL_ERROR_INVAL and *res is left
\* alone.
C8_LoadCstringArray ==
    lca.called =>
        LET f == in.argv_file
            n == NulCount(f)
        IN  /\ (WellFormed(f) /\ lca.fail = "none") =>
                  /\ lca.ret = OK
                  /\ lca.res_written
                  /\ lca.buf = f
                  /\ ~lca.over
                  /\ Len(lca.array) = n + 1
                  /\ lca.array[n + 1] = NullPtr
                  /\ \A k \in 1..n :
                        /\ lca.array[k] = SegmentStart(f, k)
                        /\ lca.array[k] \in 1..Len(f)
                  /\ lca.res = Vec(NulSegments(f))
                  /\ arguments = lca.res
            /\ (~WellFormed(f) /\ lca.fail \notin {"open", "attr", "malloc_buf", "read"}) =>
                  /\ lca.ret = PAL_ERROR_INVAL
                  /\ ~lca.res_written
                  /\ arguments = in.arguments
            /\ (f = <<"a", NUL, "b", NUL>> /\ lca.fail = "none") =>
                  arguments = <<Str(<<"a">>), Str(<<"b">>), NULL>>
            /\ (f = << >> /\ lca.fail = "none") => arguments = <<NULL>>

C8_Witness ==
    /\ lca.called
    /\ lca.ret = OK
    /\ in.argv_file = <<"a", NUL, "b", NUL>>
    /\ arguments = <<Str(<<"a">>), Str(<<"b">>), NULL>>

\* C9: whenever load_cstring_array returns a failure, the buffer and the
\* index it allocated have been released and *res is unchanged.
C9_NoPartialResult ==
    (lca.called /\ lca.ret # OK) =>
        /\ ~lca.buf_live
        /\ ~lca.array_live
        /\ ~lca.res_written
        /\ arguments = in.arguments

\* ------------------------------------------------------------------------
\* insert_envs_from_manifest on its own: every environment of at most
\* MaxMergeEnvs entries (keys may repeat, an entry may lack its '=') and
\* every loader.env of at most MaxTomlEnvs pairs
\* ------------------------------------------------------------------------

MergeEnvStrs ==
    {Str(<<"A", "=", "1">>), Str(<<"A", "=", "2">>), Str(<<"B", "=", "1">>), Str(<<"D">>)}

MergeEnvps == {Vec(v) : v \in SeqUpTo(MergeEnvStrs, MaxMergeEnvs)}

\* The tables: the keys of a TOML table are distinct.
MergeTables ==
    {[present |-> FALSE, kv |-> << >>]} \cup
    {[present |-> TRUE, kv |-> t] :
        t \in {u \in SeqUpTo({KV("A", "m"), KV("B", "n"), KV("C", "m"), KV("E", "n")},
                             MaxTomlEnvs) :
                  \A i, j \in DOMAIN u : i # j => u[i].key # u[j].key}}

InitMerge ==
    \E e \in MergeEnvps, t \in MergeTables :
       InitOn([DefaultInput EXCEPT !.environments = e, !.manifest_root_preset = TRUE,
                                   !.manifest = [DefaultManifest EXCEPT !.env = t]],
              "call_insert_envs")

\* ret = insert_envs_from_manifest(&environments)
CallInsertEnvs ==
    /\ pc = "call_insert_envs"
    /\ \E fail \in EnvFailures :
          LET call == InsertEnvsFromManifest(environments, in.manifest.env, fail)
          IN  /\ ienv' = call
              /\ environments' = call.envp
    /\ Goto("returned")
    /\ UNCHANGED <<in, handles, globals, switches, arguments, lca, libs, calls>>

SpecMerge == InitMerge /\ [][CallInsertEnvs]_vars

\* The keys of loader.env, and the entry "K=V" of its i-th pair.
TomlKeys(kv) == {kv[i].key : i \in DOMAIN kv}

TomlEntry(kv, i) == SubSeq(kv[i].key, 1, Len(kv[i].key) - 1) \o <<"=">> \o kv[i].val

\* The key of an environment entry: what precedes its first '='.
EntryKey(e) ==
    Str(SubSeq(e, 1, (CHOOSE p \in 1..Len(e) :
                        e[p] = "=" /\ \A q \in 1..p - 1 : e[q] # "=") - 1))

\* C6: after a merge with a non-empty loader.env the environment holds, for
\* each manifest key K with value V, exactly one entry whose key is K, and
\* that entry is K=V: every original entry whose key is in the manifest,
\* repeated or not, is dropped.
C6_ManifestWins ==
    ienv.merged =>
        LET kv  == in.manifest.env.kv
            new == Entries(environments)
            old == Entries(in.environments)
        IN  /\ \A i \in DOMAIN kv :
                  /\ Cardinality({j \in DOMAIN new : EntryKey(new[j]) = kv[i].key}) = 1
                  /\ \A j \in DOMAIN new :
                        EntryKey(new[j]) = kv[i].key => new[j] = TomlEntry(kv, i)
            /\ Len(new) = Len(kv)
                  + Cardinality({j \in DOMAIN old : EntryKey(old[j]) \notin TomlKeys(kv)})
            /\ environments[Len(environments)] = NULL

C6_Witness ==
    /\ ienv.merged
    /\ in.environments = Vec(<<Str(<<"A", "=", "1">>), Str(<<"B", "=", "1">>),
                               Str(<<"A", "=", "2">>)>>)
    /\ in.manifest.env.kv = <<KV("A", "m")>>
    /\ environments = Vec(<<Str(<<"B", "=", "1">>), Str(<<"A", "=", "m">>)>>)

\* C7: the merged environment is the original entries whose key is not in
\* loader.env, in their original order, followed by the manifest's entries
\* in declaration order.
C7_MergeOrder ==
    ienv.merged =>
        LET kv  == in.manifest.env.kv
            Survives(e) == EntryKey(e) \notin TomlKeys(kv)
        IN  Entries(environments) =
                SelectSeq(Entries(in.environments), Survives)
                \o [i \in DOMAIN kv |-> TomlEntry(kv, i)]

C7_Witness ==
    /\ ienv.merged
    /\ in.environments = Vec(<<Str(<<"B", "=", "1">>), Str(<<"A", "=", "1">>)>>)
    /\ in.manifest.env.kv = <<KV("C", "m"), KV("A", "m")>>
    /\ environments = Vec(<<Str(<<"B", "=", "1">>), Str(<<"C", "=", "m">>),
                            Str(<<"A", "=", "m">>)>>)

\* ------------------------------------------------------------------------
\* load_libraries on its own: every loader.preload of at most MaxScanLen
\* characters over two letters and the comma
\* ------------------------------------------------------------------------

ScanStrs == {Str(t) : t \in SeqUpTo({"a", "b", ","}, MaxScanLen)}

InitLibs ==
    \E l \in {AbsentStr, BadStr} \cup {StrVal(x) : x \in ScanStrs} :
       InitOn([DefaultInput EXCEPT !.manifest_root_preset = TRUE,
                                   !.manifest = [DefaultManifest EXCEPT !.preload = l]],
              "load_libraries")

NextLibs == LoadLibraries \/ LibScan

\* The function runs to its end: nothing but the exit of the process stops
\* the loop.
SpecLibs == InitLibs /\ [][NextLibs]_vars /\ WF_vars(NextLibs)

\* The pieces of the characters t between its commas, in order.
RECURSIVE SplitComma(_)
SplitComma(t) ==
    LET commas == {i \in 1..Len(t) : t[i] = ","}
        p      == CHOOSE i \in commas : \A j \in commas : i <= j
    IN  IF commas = {} THEN <<t>>
        ELSE <<SubSeq(t, 1, p - 1)>> \o SplitComma(SubSeq(t, p + 1, Len(t)))

\* The non-empty comma-separated segments of loader.preload, as C strings.
NonEmptySegments(val) ==
    LET NonEmpty(x) == x # << >>
        parts == IF val.kind = "str"
                 THEN SelectSeq(SplitComma(SubSeq(val.s, 1, Len(val.s) - 1)), NonEmpty)
                 ELSE << >>
    IN  [i \in DOMAIN parts |-> Str(parts[i])]

\* The names load_elf_object was called with.
LoadNames == [i \in DOMAIN loads |-> loads[i].name]

\* At every point of the scan the load attempts made are the first
\* non-empty segments, in order; at its end they are all of them.
ScanInv ==
    LET want == NonEmptySegments(in.manifest.preload)
    IN  /\ Len(LoadNames) <= Len(want)
        /\ LoadNames = SubSeq(want, 1, Len(LoadNames))
        /\ \A i \in DOMAIN loads : loads[i].type = "OBJECT_PRELOAD"
        /\ \A i \in 1..Len(loads) - 1 : loads[i].ok
        /\ pc = "load_exec" => (LoadNames = want /\ \A i \in DOMAIN loads : loads[i].ok)
        /\ pc = "lib_scan" => c <= len

\* C10: load_libraries issues load attempts for exactly the non-empty
\* comma-separated segments of loader.preload, once each and from left to
\* right (none for an absent or empty option), a failed attempt being the
\* last, and the scan ends for every string.
C10_LoadLibraries == [](ScanInv) /\ <>(pc \notin {"load_libraries", "lib_scan"})

C10_Witness ==
    /\ pc = "load_exec"
    /\ in.manifest.preload = StrVal(Str(<<"a", ",", ",", "b">>))
    /\ LoadNames = <<Str(<<"a">>), Str(<<"b">>)>>

\* The step was executed.
Did(step) == \E i \in DOMAIN log : log[i] = step

\* The process exited in the step.
FatalIn(step) == pc = "fatal" /\ log[Len(log)] = step

\* ------------------------------------------------------------------------
\* The argument vector handed to the application
\* ------------------------------------------------------------------------

CmdlineArgvOff == in.manifest.use_cmdline_argv \in {AbsentInt, IntVal(0)}

ArgvFileSet == in.manifest.argv_src_file.kind = "str"

Argv0OverrideSet == in.manifest.argv0_override.kind = "str"

\* C1: with neither loader.insecure__use_cmdline_argv nor
\* loader.argv_src_file set and two or more host arguments, the application
\* is never started, and a run that gets to the argument step exits there
\* with the "argv handling wasn't configured" failure, with or without
\* loader.argv0_override.
C1_ArgvRejected ==
    (CmdlineArgvOff /\ in.manifest.argv_src_file = AbsentStr
        /\ Len(Entries(in.arguments)) >= 2) =>
        /\ ~Started
        /\ Did("argv_source") =>
              /\ FatalIn("argv_source")
              /\ fatal_msg = "argv handling wasn't configured in the manifest"

C1_Witness ==
    /\ CmdlineArgvOff
    /\ in.manifest.argv_src_file = AbsentStr
    /\ Len(Entries(in.arguments)) = 2
    /\ Argv0OverrideSet
    /\ argv0_overridden
    /\ FatalIn("argv_source")
    /\ fatal_msg = "argv handling wasn't configured in the manifest"

\* What the host's vector becomes when it is kept: slot 0 is the override
\* when there is one.
HostVectorKept ==
    IF ~Argv0OverrideSet THEN in.arguments
    ELSE <<in.manifest.argv0_override.s>>
         \o (IF in.arguments = <<NULL>> THEN <<NULL>> ELSE Tail(in.arguments))

\* C2 as stated: whenever loader.argv_src_file is set and the application is
\* started, its arguments are the strings of the file, for every value of
\* loader.insecure__use_cmdline_argv.
C2_FileAlwaysWins ==
    (Started /\ ArgvFileSet) => arguments = Vec(NulSegments(in.argv_file))

\* C2: when loader.argv_src_file is set and the application is started, its
\* arguments are the strings of the file if
\* loader.insecure__use_cmdline_argv is 0 or absent (none of them is a host
\* argument); if it is 1 the file is not opened and the host's vector is
\* kept.
C2_FileWinsUnlessCmdline ==
    (Started /\ ArgvFileSet) =>
        IF CmdlineArgvOff
        THEN /\ arguments = Vec(NulSegments(in.argv_file))
             /\ \E i \in DOMAIN opens : opens[i].uri = ArgvPath
        ELSE /\ arguments = HostVectorKept
             /\ \A i \in DOMAIN opens : opens[i].uri # ArgvPath

C2_Witness ==
    /\ Started
    /\ ArgvFileSet
    /\ in.manifest.use_cmdline_argv = IntVal(0)
    /\ in.arguments = Vec(<<Str(<<"p">>), Str(<<"x">>)>>)
    /\ in.argv_file = <<"a", NUL, "b", NUL>>
    /\ arguments = Vec(<<Str(<<"a">>), Str(<<"b">>)>>)

\* The arguments of a run without loader.argv0_override.
WithoutOverride ==
    IF CmdlineArgvOff /\ ArgvFileSet THEN Vec(NulSegments(in.argv_file)) ELSE in.arguments

\* C3 as stated: whenever loader.argv0_override is set and the application
\* is started, slot 0 is the override and the other slots are those of the
\* run without it, under every combination of the other two keys.
C3_OverrideIndependent ==
    (Started /\ Argv0OverrideSet) =>
        /\ arguments[1] = in.manifest.argv0_override.s
        /\ WithoutOverride # <<NULL>> => Tail(arguments) = Tail(WithoutOverride)
        /\ in.arguments = <<NULL>> => arguments = <<in.manifest.argv0_override.s, NULL>>

\* C3: whenever loader.argv0_override is set and the application is started
\* with arguments that were not loaded from loader.argv_src_file, slot 0 is
\* the override, the other slots are the host's, and without host arguments
\* the vector is the override and NULL; arguments loaded from the file are
\* those of the file, slot 0 included.
C3_OverrideUnlessFile ==
    (Started /\ Argv0OverrideSet) =>
        IF CmdlineArgvOff /\ ArgvFileSet
        THEN arguments = Vec(NulSegments(in.argv_file))
        ELSE /\ arguments[1] = in.manifest.argv0_override.s
             /\ in.arguments # <<NULL>> => Tail(arguments) = Tail(in.arguments)
             /\ in.arguments = <<NULL>> =>
                   arguments = <<in.manifest.argv0_override.s, NULL>>

C3_Witness ==
    /\ Started
    /\ Argv0OverrideSet
    /\ in.manifest.use_cmdline_argv = IntVal(1)
    /\ in.arguments = Vec(<<Str(<<"p">>), Str(<<"x">>)>>)
    /\ arguments = Vec(<<Str(<<"o">>), Str(<<"x">>)>>)

\* ------------------------------------------------------------------------
\* The environment handed to the application
\* ------------------------------------------------------------------------

HostEnvOff == in.manifest.use_host_env \in {AbsentInt, IntVal(0)}

EnvFileSet == in.manifest.env_src_file.kind = "str"

\* The strings of loader.env_src_file, none without the key.
FileEntries == IF EnvFileSet THEN NulSegments(in.env_file) ELSE << >>

HasEq(e) == \E p \in 1..Len(e) : e[p] = "="

\* What the merge makes of the strings of the file.
MergedFileEntries ==
    LET kv == in.manifest.env.kv
        Survives(e) == EntryKey(e) \notin TomlKeys(kv)
    IN  IF Len(kv) = 0 THEN FileEntries
        ELSE SelectSeq(FileEntries, Survives) \o [i \in DOMAIN kv |-> TomlEntry(kv, i)]

\* C4: with loader.insecure__use_host_env 0 or absent the environment is
\* empty right after the switch is read, and from then on it is a function
\* of the contents of loader.env_src_file and of loader.env alone, as is the
\* refusal of the merge: the host's environment appears in neither.
C4_HostEnvCleared ==
    HostEnvOff =>
        /\ pc = "env_src_file" => environments = <<NULL>>
        /\ pc = "insert_envs" => environments = Vec(FileEntries)
        /\ (Did("insert_envs") /\ ~FatalIn("insert_envs")) =>
              /\ Len(in.manifest.env.kv) > 0 => \A i \in DOMAIN FileEntries : HasEq(FileEntries[i])
              /\ environments = Vec(MergedFileEntries)
        /\ FatalIn("insert_envs") =>
              /\ Len(in.manifest.env.kv) > 0
              /\ ienv.ret = PAL_ERROR_INVAL
                    <=> \E i \in DOMAIN FileEntries : ~HasEq(FileEntries[i])

C4_Witness ==
    /\ Started
    /\ HostEnvOff
    /\ in.environments = Vec(<<Str(<<"A", "=", "h">>), Str(<<"B", "=", "h">>)>>)
    /\ in.env_file = <<"A", "=", "f", NUL>>
    /\ EnvFileSet
    /\ in.manifest.env.kv = <<KV("C", "m"), KV("A", "n")>>
    /\ environments = Vec(<<Str(<<"C", "=", "m">>), Str(<<"A", "=", "n">>)>>)

\* C5: with loader.insecure__use_host_env = 1 and loader.env_src_file set
\* the application is never started, the file is never opened, the merge is
\* never called, nothing is loaded, and a run that gets to the step of
\* loader.env_src_file exits there with "Wrong manifest configuration".
C5_EnvConflictFatal ==
    (in.manifest.use_host_env = IntVal(1) /\ EnvFileSet) =>
        /\ ~Started
        /\ \A i \in DOMAIN opens : opens[i].uri # EnvPath
        /\ ~ienv.called
        /\ ~Did("insert_envs")
        /\ loads = << >>
        /\ Did("env_src_file") =>
              /\ FatalIn("env_src_file")
              /\ fatal_msg = "Wrong manifest configuration"

C5_Witness ==
    /\ in.manifest.use_host_env = IntVal(1)
    /\ EnvFileSet
    /\ use_host_env = 1
    /\ in.environments # <<NULL>>
    /\ FatalIn("env_src_file")
    /\ fatal_msg = "Wrong manifest configuration"

\* ------------------------------------------------------------------------
\* The manifest and the executable
\* ------------------------------------------------------------------------

ExecKeyMessage == "loader.exec is not supported anymore"

\* C11: a manifest that holds loader.exec, whatever its value (a string, the
\* empty string, something that is no string), never gets past the test of
\* the key: no executable is derived from the manifest's name or opened,
\* nothing is loaded, the application is never started, and a run that
\* gets to the test exits there with the migration message.
C11_ExecKeyFatal ==
    in.manifest.exec # AbsentStr =>
        /\ ~Started
        /\ ~Did("derive_exec")
        /\ \A i \in DOMAIN opens :
              opens[i].uri \in {FileManifest, FirstManifestName(in.exec_handle)}
        /\ loads = << >>
        /\ Did("reject_exec_key") =>
              /\ FatalIn("reject_exec_key")
              /\ fatal_msg = ExecKeyMessage

C11_Witness ==
    /\ in.manifest.exec = StrVal(Str(<< >>))
    /\ in.exec_handle = NULL
    /\ in.manifest_handle = Str(FileApp \o DotManifest)
    /\ FatalIn("reject_exec_key")
    /\ fatal_msg = ExecKeyMessage

\* The name "<normalized exec>.manifest" of the two executables' names.
NormalizedManifestName ==
    IF in.exec_handle = Str(FileDotApp) THEN Str(FileApp \o DotManifest)
    ELSE Str(SubSeq(in.exec_handle, 1, Len(in.exec_handle) - 1) \o DotManifest)

\* C12: without any handle pal_main exits with "Must have manifest or
\* executable" and opens nothing; with the executable's handle alone the
\* first name opened is "<normalized exec>.manifest", "file:manifest" is
\* opened only second and only after that open failed, and when both fail
\* pal_main exits with "Cannot find manifest file"; in both failures the
\* manifest is not loaded and no later step runs.
C12_ManifestLookup ==
    /\ (in.manifest_handle = NULL /\ in.exec_handle = NULL /\ Did("manifest_name")) =>
          /\ FatalIn("manifest_name")
          /\ fatal_msg = "Must have manifest or executable"
          /\ opens = << >>
          /\ ~Did("load_manifest")
    /\ (in.manifest_handle = NULL /\ in.exec_handle # NULL) =>
          /\ opens # << >> => opens[1].uri = NormalizedManifestName
          /\ \A i \in DOMAIN opens :
                opens[i].uri = FileManifest => (i = 2 /\ ~opens[1].ok)
          /\ (Len(opens) >= 2 /\ ~opens[1].ok /\ ~opens[2].ok) =>
                /\ FatalIn("manifest_name")
                /\ fatal_msg = "Cannot find manifest file"
                /\ Len(opens) = 2
                /\ ~Did("load_manifest")
          /\ (Did("load_manifest") /\ Len(opens) >= 1) =>
                (opens[1].ok \/ (opens[2].uri = FileManifest /\ opens[2].ok))

C12_Witness ==
    /\ in.manifest_handle = NULL
    /\ in.exec_handle = Str(FileDotApp)
    /\ opens = <<[uri |-> Str(FileApp \o DotManifest), ok |-> FALSE],
                 [uri |-> FileManifest, ok |-> FALSE]>>
    /\ FatalIn("manifest_name")
    /\ fatal_msg = "Cannot find manifest file"

\* C13: in every run that gets past the commit of lines 380-383,
\* g_pal_state.manifest is a name, not NULL, and it is the name of the
\* manifest that was opened, whichever way the manifest was found.
C13_ManifestIdentity ==
    g_pal_state.committed =>
        /\ g_pal_state.manifest # NULL
        /\ g_pal_state.manifest = g_pal_state.manifest_handle

\* C14: in every run that starts the application an executable handle was
\* committed, its image went through the ELF check and was loaded as the
\* main executable.
C14_ExecutableObtained ==
    Started =>
        /\ g_pal_state.exec_handle # NULL
        /\ Did("check_elf")
        /\ \E i \in DOMAIN loads :
              /\ loads[i].type = "OBJECT_EXEC"
              /\ loads[i].ok
              /\ loads[i].name = g_pal_state.exec_handle

\* ------------------------------------------------------------------------
\* The debug stream
\* ------------------------------------------------------------------------

DebugStreamWritten == \E i \in DOMAIN g_pal_control.written :
                         g_pal_control.written[i] = "debug_stream"

\* The opens of the console and of loader.debug_file, in order.
DebugOpens ==
    LET IsDebug(o) == o.uri \in {DevTty, DebugPath}
    IN  SelectSeq(opens, IsDebug)

\* C15: once set_debug_type has run, an absent loader.debug_type and
\* "none" leave no debug stream on the control block and open nothing;
\* "inline" leaves the console's handle there; "file" leaves the handle of
\* loader.debug_file there and is fatal without that key; every other
\* value and a failed open are fatal; and whenever set_debug_type is fatal
\* the debug stream of the control block was never written.
C15_DebugRouting ==
    Did("set_debug_type") =>
        LET t == in.manifest.debug_type
            f == in.manifest.debug_file
            failed == FatalIn("set_debug_type")
        IN  /\ t = AbsentStr =>
                  /\ ~failed
                  /\ ~DebugStreamWritten
                  /\ g_pal_control.debug_stream = NULL
                  /\ DebugOpens = << >>
            /\ t = StrVal(DebugNone) =>
                  /\ ~failed
                  /\ g_pal_control.debug_stream = NULL
                  /\ DebugOpens = << >>
            /\ t = StrVal(DebugInline) =>
                  IF failed
                  THEN fatal_msg = "Cannot open debug stream" /\ DebugOpens = <<[uri |-> DevTty, ok |-> FALSE]>>
                  ELSE g_pal_control.debug_stream = DevTty /\ DebugOpens = <<[uri |-> DevTty, ok |-> TRUE]>>
            /\ (t = StrVal(DebugFile) /\ f.kind # "str") =>
                  /\ failed
                  /\ fatal_msg = "Cannot find/parse 'loader.debug_file'"
                  /\ DebugOpens = << >>
            /\ (t = StrVal(DebugFile) /\ f.kind = "str") =>
                  IF failed
                  THEN fatal_msg = "Cannot open debug stream" /\ DebugOpens = <<[uri |-> f.s, ok |-> FALSE]>>
                  ELSE g_pal_control.debug_stream = f.s /\ DebugOpens = <<[uri |-> f.s, ok |-> TRUE]>>
            /\ t = StrVal(DebugOther) =>
                  failed /\ fatal_msg = "Unknown 'loader.debug_type'" /\ DebugOpens = << >>
            /\ t = BadStr =>
                  failed /\ fatal_msg = "Cannot parse 'loader.debug_type'" /\ DebugOpens = << >>
            /\ failed => (~DebugStreamWritten /\ g_pal_control.debug_stream = NULL)

C15_Witness ==
    /\ Started
    /\ in.manifest.debug_type = StrVal(DebugFile)
    /\ in.manifest.debug_file = StrVal(DebugPath)
    /\ g_pal_control.debug_stream = DebugPath
    /\ DebugStreamWritten

\* ------------------------------------------------------------------------
\* The outcomes of pal_main
\* ------------------------------------------------------------------------

UnexpectedTermination == "unexpected termination"

\* The two ways pal_main ends.
Outcomes == {"started", "fatal"}

\* A step taken after an outcome is the exit of the process, and after the
\* entry point it reports the unexpected termination.
ExitsAfterOutcome ==
    /\ pc \in Outcomes => pc' = "fatal"
    /\ pc = "started" => fatal_msg' = UnexpectedTermination

\* C16: every run of pal_main gets to the application's entry point or to
\* the exit of the process, and the only step after the entry point is
\* the exit with "unexpected termination", which is also how a failure of
\* _DkGetCPUInfo ends; pal_main is never left in any other way.
C16_TwoOutcomes ==
    /\ <>(pc \in Outcomes)
    /\ [][ExitsAfterOutcome]_vars
    /\ [](FatalIn("control") => fatal_msg = UnexpectedTermination)
    /\ [](pc \notin Outcomes => ENABLED Bootstrap)

C16_Witness ==
    /\ Started
    /\ FatalIn("started")
    /\ fatal_msg = UnexpectedTermination

\* ------------------------------------------------------------------------
\* The 0/1 switches of the manifest
\* ------------------------------------------------------------------------

\* The value of a switch is neither absent, 0 nor 1.
Malformed(val) == val \notin {AbsentInt, IntVal(0), IntVal(1)}

\* What a well-formed switch stands for.
SwitchValue(val) == IF val = IntVal(1) THEN 1 ELSE 0

\* C17: a value of loader.insecure__disable_aslr,
\* loader.insecure__use_cmdline_argv or loader.insecure__use_host_env that
\* is not 0 or 1, or that cannot be parsed, ends every run before the
\* application starts, in the step that reads the key; after that step the
\* switch holds the manifest's value, 0 when the key is absent; and the
\* disable_aslr flag written to the control block is the manifest's value.
C17_SwitchesChecked ==
    /\ Malformed(in.manifest.disable_aslr) =>
          /\ ~Started
          /\ Did("aslr") =>
                /\ FatalIn("aslr")
                /\ fatal_msg = "Cannot parse 'loader.insecure__disable_aslr'"
    /\ Malformed(in.manifest.use_cmdline_argv) =>
          /\ ~Started
          /\ Did("use_cmdline_argv") =>
                /\ FatalIn("use_cmdline_argv")
                /\ fatal_msg = "Cannot parse 'loader.insecure__use_cmdline_argv'"
    /\ Malformed(in.manifest.use_host_env) =>
          /\ ~Started
          /\ Did("use_host_env") =>
                /\ FatalIn("use_host_env")
                /\ fatal_msg = "Cannot parse 'loader.insecure__use_host_env'"
    /\ (Did("aslr") /\ ~Malformed(in.manifest.disable_aslr)) =>
          disable_aslr = (SwitchValue(in.manifest.disable_aslr) = 1)
    /\ (Did("use_cmdline_argv") /\ ~Malformed(in.manifest.use_cmdline_argv)) =>
          use_cmdline_argv = SwitchValue(in.manifest.use_cmdline_argv)
    /\ (Did("use_host_env") /\ ~Malformed(in.manifest.use_host_env)) =>
          use_host_env = SwitchValue(in.manifest.use_host_env)
    /\ Did("control") =>
          g_pal_control.disable_aslr = (in.manifest.disable_aslr = IntVal(1))

C17_Witness ==
    /\ in.manifest.use_host_env = IntVal(2)
    /\ FatalIn("use_host_env")
    /\ fatal_msg = "Cannot parse 'loader.insecure__use_host_env'"

\* ------------------------------------------------------------------------
\* A host vector of at most one argument
\* ------------------------------------------------------------------------

ArgvMessage == "argv handling wasn't configured in the manifest"

AtMostArgv0 ==
    /\ CmdlineArgvOff
    /\ in.manifest.argv_src_file = AbsentStr
    /\ Len(Entries(in.arguments)) <= 1

\* C18 as stated: with neither loader.insecure__use_cmdline_argv nor
\* loader.argv_src_file set, a host vector of at most one entry is not
\* refused at the argument step, with or without loader.argv0_override,
\* and the application is started with it (slot 0 replaced by the
\* override, if any).
C18_SingleArgAccepted ==
    AtMostArgv0 =>
        /\ ~FatalIn("argv_source")
        /\ Started => arguments = HostVectorKept

\* C18: with neither loader.insecure__use_cmdline_argv nor
\* loader.argv_src_file set, a host vector of at most one entry passes the
\* argument step only when loader.argv0_override is set, and the
\* application is then started with the override followed by NULL;
\* without the override the run is refused at the argument step, even when
\* the host gave no argument at all.
C18_SingleArgNeedsOverride ==
    AtMostArgv0 =>
        IF Argv0OverrideSet
        THEN /\ ~FatalIn("argv_source")
             /\ Did("argv_source") => arguments = <<in.manifest.argv0_override.s, NULL>>
        ELSE /\ ~Started
             /\ Did("argv_source") => (FatalIn("argv_source") /\ fatal_msg = ArgvMessage)

C18_Witness ==
    /\ AtMostArgv0
    /\ Argv0OverrideSet
    /\ in.arguments = Vec(<<Str(<<"p">>)>>)
    /\ Started
    /\ arguments = <<Str(<<"o">>), NULL>>

\* ------------------------------------------------------------------------
\* The order of the steps
\* ------------------------------------------------------------------------

\* The steps of pal_main in the order of its text; the iterations of the
\* loop of load_libraries are the one step that repeats.
StepOrder ==
    <<"seed", "exec_name", "manifest_name", "load_manifest", "reject_exec_key",
      "derive_exec", "check_elf", "commit", "aslr",
      "argv0_override", "use_cmdline_argv", "argv_source",
      "use_host_env", "env_src_file", "insert_envs",
      "load_libraries", "lib_scan", "load_exec", "set_debug_type", "control",
      "start_execution", "started">>

Rank(step) == CHOOSE k \in DOMAIN StepOrder : StepOrder[k] = step

\* The fields of the control block written so far.
WrittenFields == {g_pal_control.written[i] : i \in DOMAIN g_pal_control.written}

\* C19: the steps run in the order of StepOrder, none twice (but for the
\* iterations of the scan of loader.preload) and none after a later one;
\* nothing is loaded before the ELF check, every preload library is loaded
\* before the main executable, which is loaded at most once, and the
\* application is started only with every field of lines 524-541 written.
C19_ForwardOrder ==
    /\ \A i \in DOMAIN log : log[i] \in {StepOrder[k] : k \in DOMAIN StepOrder}
    /\ \A i, j \in DOMAIN log :
          i < j => \/ Rank(log[i]) < Rank(log[j])
                   \/ (log[i] = "lib_scan" /\ log[j] = "lib_scan")
    /\ pc # "fatal" => \A i \in DOMAIN log : Rank(log[i]) < Rank(pc) \/ pc = "lib_scan"
    /\ loads # << >> => Did("check_elf")
    /\ \A i, j \in DOMAIN loads :
          (loads[i].type = "OBJECT_EXEC" /\ i # j) =>
              (j < i /\ loads[j].type = "OBJECT_PRELOAD")
    /\ Started => \A k \in DOMAIN ControlFields : ControlFields[k] \in WrittenFields

C19_Witness ==
    /\ Started
    /\ Len(loads) = 3
    /\ loads[1].type = "OBJECT_PRELOAD"
    /\ loads[2].type = "OBJECT_PRELOAD"
    /\ loads[3].type = "OBJECT_EXEC"
    /\ "mem_info" \in WrittenFields

\* ------------------------------------------------------------------------
\* After a failure
\* ------------------------------------------------------------------------

\* A failed load, a failed load_cstring_array and a failed
\* insert_envs_from_manifest have ended the run, and a run that ended
\* before the control block was filled in left lines 524-541 unwritten.
FailureIsFinal ==
    /\ \A i \in DOMAIN loads :
          ~loads[i].ok => (i = Len(loads) /\ pc = "fatal" /\ ~Started)
    /\ (lca.called /\ lca.ret # OK) => (pc = "fatal" /\ ~Started)
    /\ (ienv.called /\ ienv.ret # OK) => (pc = "fatal" /\ ~Started)
    /\ (pc = "fatal" /\ Rank(log[Len(log)]) < Rank("control")) =>
          /\ ~Started
          /\ WrittenFields \subseteq {"debug_stream"}
    /\ pc = "fatal" => ~ENABLED Next

\* C20: no step is ever taken from the fatal state, and every failure leads
\* to it at once: after a failed preload load no library and no executable
\* is loaded, after a failed load_cstring_array or
\* insert_envs_from_manifest nothing follows, no field of the control
\* block is written and the application is not started.
C20_FatalAbsorbing == [][pc # "fatal"]_vars /\ [](FailureIsFinal)

C20_Witness ==
    /\ FatalIn("lib_scan")
    /\ fatal_msg = "Unable to load preload library"
    /\ Len(loads) = 1
    /\ ~loads[1].ok
    /\ Len(NonEmptySegments(in.manifest.preload)) = 2


\* ------------------------------------------------------------------------
\* The counts of insert_envs_from_manifest
\* ------------------------------------------------------------------------

\* The counting loop of the call ran to its end: loader.env is not empty and
\* every original entry holds an '='.
Counted == ienv.called /\ ienv.toml_envs_cnt > 0 /\ ienv.ret # PAL_ERROR_INVAL

\* The pre-merge entries whose key is a key of loader.env.
OverwrittenEntries ==
    LET old == Entries(in.environments)
    IN  {j \in DOMAIN old : EntryKey(old[j]) \in TomlKeys(in.manifest.env.kv)}

\* The counts are those of the pre-merge environment and of loader.env.
CountsExact ==
    /\ ienv.orig_envs_cnt = Len(Entries(in.environments))
    /\ ienv.toml_envs_cnt = Len(in.manifest.env.kv)
    /\ ienv.overwrite_cnt = Cardinality(OverwrittenEntries)

\* C21 as stated: the overwritten count is bounded by the pre-merge entry
\* count and by the manifest entry count, whatever the pre-merge
\* environment, so that the total is not negative.  Violated: a key of
\* loader.env that occurs twice in the environment is counted twice.
C21_BoundedByBoth ==
    Counted =>
        /\ CountsExact
        /\ ienv.overwrite_cnt <= ienv.orig_envs_cnt
        /\ ienv.overwrite_cnt <= ienv.toml_envs_cnt
        /\ ienv.orig_envs_cnt + ienv.toml_envs_cnt - ienv.overwrite_cnt >= 0

\* C21: the overwritten count (the number of pre-merge entries whose key is
\* in loader.env, each occurrence of a repeated key counted) is bounded by
\* the pre-merge entry count, so that original count + manifest count -
\* overwritten count is at least the manifest count and never negative; it
\* is bounded by the manifest count when no overwritten key repeats in the
\* environment, and may exceed it otherwise.
C21_BoundedByOriginal ==
    Counted =>
        /\ CountsExact
        /\ ienv.overwrite_cnt <= ienv.orig_envs_cnt
        /\ ienv.orig_envs_cnt + ienv.toml_envs_cnt - ienv.overwrite_cnt
              >= ienv.toml_envs_cnt
        /\ ienv.toml_envs_cnt > 0
        /\ ienv.total_envs_cnt =
              ienv.orig_envs_cnt + ienv.toml_envs_cnt - ienv.overwrite_cnt
        /\ (\A i, j \in OverwrittenEntries :
               i # j => EntryKey(Entries(in.environments)[i])
                           # EntryKey(Entries(in.environments)[j]))
              => ienv.overwrite_cnt <= ienv.toml_envs_cnt

\* A key of loader.env occurs twice in the environment: two entries are
\* overwritten by a manifest of one entry.
C21_Witness ==
    /\ Counted
    /\ in.environments = Vec(<<Str(<<"A", "=", "1">>), Str(<<"A", "=", "2">>)>>)
    /\ in.manifest.env.kv = <<KV("A", "m")>>
    /\ ienv.overwrite_cnt = 2
    /\ ienv.toml_envs_cnt = 1
    /\ ienv.total_envs_cnt = 1

\* C22: in every call that reaches them the two assertions on idx hold.
\* After the copy loop idx is the number of surviving originals and is
\* below total_envs_cnt; after the append loop idx equals total_envs_cnt,
\* so the new vector holds original count + manifest count - overwritten
\* count entries, none of its slots below the total is unset, no write fell
\* outside it, and the slot at index total is still NULL.
C22_IndexAssertions ==
    /\ ~ienv.oob
    /\ ienv.asserts >= 1 =>
          /\ ienv.idx_copied = ienv.orig_envs_cnt - ienv.overwrite_cnt
          /\ ienv.idx_copied < ienv.total_envs_cnt
    /\ ienv.asserts = 2 =>
          /\ ienv.merged
          /\ ienv.idx_end = ienv.total_envs_cnt
          /\ ienv.total_envs_cnt =
                ienv.orig_envs_cnt + ienv.toml_envs_cnt - ienv.overwrite_cnt
          /\ Len(environments) = ienv.total_envs_cnt + 1
          /\ \A k \in 1..ienv.total_envs_cnt : environments[k] # NULL
          /\ environments[ienv.total_envs_cnt + 1] = NULL

\* Both assertions were reached in a merge that drops a repeated key and
\* keeps one original entry.
C22_Witness ==
    /\ ienv.asserts = 2
    /\ in.environments = Vec(<<Str(<<"A", "=", "1">>), Str(<<"B", "=", "1">>),
                               Str(<<"A", "=", "2">>)>>)
    /\ in.manifest.env.kv = <<KV("A", "m"), KV("C", "m")>>
    /\ ienv.idx_copied = 1
    /\ ienv.idx_end = 3
    /\ ienv.total_envs_cnt = 3
=============================================================================
